---------------------------- MODULE Spec2Model ----------------------------
(***************************************************************************)
(* Invite attribution and verification sessions of PittBOT (src/bot.py).   *)
(*                                                                         *)
(* The bot runs on one cooperative scheduler: a coroutine runs without     *)
(* interruption from one `await` to the next.  Every action below is one   *)
(* such segment of on_member_join, of verify or of a UI callback, or one   *)
(* step of the platform (a member joining, a prompt timing out).           *)
(***************************************************************************)
EXTENDS Integers, Sequences, FiniteSets, TLC

(***************************************************************************)
(* Bounds of the model.                                                    *)
(***************************************************************************)
MaxJoins == 2          \* join events over the whole run
MaxVerifies == 2       \* verify invocations over the whole run
MaxSlots == 2          \* verify coroutines of one user in flight at once
MaxLen == 3            \* invites per snapshot handed to the Differ alone
MaxUses == 2           \* largest use count handed to the Differ alone

Users == {"u1", "u2"}
Guilds == {"g1", "g2"}
None == "none"

\* The invites of each guild, in the order guild.invites() lists them.
GuildCodes == [g \in Guilds |-> IF g = "g1" THEN <<"A", "B">> ELSE <<"C">>]
Codes == {"A", "B", "C"}
CodeGuild(c) == IF c = "C" THEN "g2" ELSE "g1"

\* The role each invite was generated for (make_categories), by role name.
RoleOf == [c \in Codes |-> IF c = "A" THEN "roleA" ELSE IF c = "B" THEN "roleB" ELSE "roleC"]

NoInvite == [code |-> None, uses |-> 0]
EmptySnap == [t |-> 0, inv |-> <<>>]

\* E-mail addresses as token sequences; "@pitt.edu" is one token.
NoEmail == <<>>
Emails == { <<"abc", "@pitt.edu">>, <<"abc", "@gmail.com">> }

\* What a user may type into the prompt: the addresses above, and strings
\* that hold the text "@pitt.edu" without being an address of that domain.
Submissions ==
    Emails \cup { <<"abc", "@pitt.edu", ".example.com">>,
                  <<"abc", "@pitt.edu", "abc", "@gmail.com">> }

VARIABLES
    uses,                  \* platform: use count of every invite
    members,               \* platform: members of every guild
    clock,                 \* platform: number of changes of a guild's invites so far
    nick,                  \* platform: display name set by the bot, per user
    granted,               \* platform: roles granted by the bot, per user
    landing_revoked,       \* platform: roles whose landing-channel access was revoked
    guild_roles,           \* platform: the roles that exist in each guild
    logs,                  \* operator channel: the reports sent
    invites_cache,         \* bot.py:71
    invite_to_role,        \* bot.py:74
    user_to_guild,         \* bot.py:84
    user_to_email,         \* bot.py:87
    override_user_to_code, \* bot.py:92
    user_to_invite,        \* bot.py:96
    db_invites,            \* DbInvite rows: code -> role id
    db_users,              \* DbUser rows as the shared session sees them
    db_committed,          \* DbUser rows that are committed
    jflow,                 \* on_member_join coroutine of every user
    vflow,                 \* verify coroutines
    views,                 \* community selection menus sent (each stays usable
                           \* for 180 s; the model lets the user pick at any time)
    njoins, nverifies,     \* counters for the bounds
    last,                  \* how the coroutine that ended last ended
    happened,              \* what has happened to a user so far (Remembered)
    d_old, d_now, d_join, d_verify, d_pc  \* the Differ on its own

pvars == <<uses, members, clock, nick, granted, landing_revoked, guild_roles, logs>>
cvars == <<invites_cache, invite_to_role, user_to_guild, user_to_email,
           override_user_to_code, user_to_invite>>
dbvars == <<db_invites, db_users, db_committed>>
fvars == <<jflow, vflow, views, njoins, nverifies, last, happened>>
dvars == <<d_old, d_now, d_join, d_verify, d_pc>>
vars == <<pvars, cvars, dbvars, fvars, dvars>>

(***************************************************************************)
(* Python dict helpers.                                                    *)
(***************************************************************************)
Put(f, k, v) == [x \in (DOMAIN f) \cup {k} |-> IF x = k THEN v ELSE f[x]]
\* mutant: del empties the dict
Del_all(f, k) == [x \in {} |-> f[x]]

Del(f, k) == [x \in (DOMAIN f) \ {k} |-> f[x]]
EmptyMap == [x \in {} |-> None]

(***************************************************************************)
(* guild.invites(): the invites of a guild with their use counts, stamped  *)
(* with the observation point.                                             *)
(***************************************************************************)
FetchInvites(g) ==
    [t |-> clock[g],
     inv |-> [i \in 1..Len(GuildCodes[g]) |->
                 [code |-> GuildCodes[g][i], uses |-> uses[GuildCodes[g][i]]]]]

(***************************************************************************)
(* util.invites.get_invite_from_code: the invite of the list that has the  *)
(* code, or nothing.                                                       *)
(***************************************************************************)
get_invite_from_code(invites, code) ==
    IF \E i \in 1..Len(invites) : invites[i].code = code
    THEN invites[CHOOSE i \in 1..Len(invites) :
                    /\ invites[i].code = code
                    /\ \A j \in 1..(i-1) : invites[j].code # code]
    ELSE NoInvite

(***************************************************************************)
(* The Differ of on_member_join (bot.py:1331-1353).                        *)
(***************************************************************************)
RECURSIVE join_loop(_, _, _, _)
join_loop(old_invites, invites_now, i, potential_invites) ==
    IF i > Len(old_invites) THEN potential_invites
    ELSE LET possible_invite == old_invites[i]
             new_invite == get_invite_from_code(invites_now, possible_invite.code)
         IN  IF new_invite = NoInvite
             THEN join_loop(old_invites, invites_now, i + 1, potential_invites)
             ELSE IF possible_invite.uses < new_invite.uses
                  THEN join_loop(old_invites, invites_now, i + 1,
                                 Append(potential_invites, possible_invite))
                  ELSE join_loop(old_invites, invites_now, i + 1, potential_invites)

\* mutant: the comparison lets an unchanged counter through
RECURSIVE join_loop_leq(_, _, _, _)
join_loop_leq(old_invites, invites_now, i, potential_invites) ==
    IF i > Len(old_invites) THEN potential_invites
    ELSE LET possible_invite == old_invites[i]
             new_invite == get_invite_from_code(invites_now, possible_invite.code)
         IN  IF new_invite = NoInvite
             THEN join_loop_leq(old_invites, invites_now, i + 1, potential_invites)
             ELSE IF possible_invite.uses <= new_invite.uses
                  THEN join_loop_leq(old_invites, invites_now, i + 1,
                                     Append(potential_invites, possible_invite))
                  ELSE join_loop_leq(old_invites, invites_now, i + 1, potential_invites)

join_potential_invites_leq(old_invites, invites_now) ==
    join_loop_leq(old_invites, invites_now, 1, <<>>)

join_potential_invites(old_invites, invites_now) ==
    join_loop(old_invites, invites_now, 1, <<>>)

(***************************************************************************)
(* The Differ of verify (bot.py:340-362), the fallback copy.               *)
(***************************************************************************)
RECURSIVE verify_loop(_, _, _, _)
verify_loop(old_invites, invites_now, i, potential_invites) ==
    IF i > Len(old_invites) THEN potential_invites
    ELSE LET possible_invite == old_invites[i]
             new_invite == get_invite_from_code(invites_now, possible_invite.code)
         IN  IF new_invite = NoInvite
             THEN verify_loop(old_invites, invites_now, i + 1, potential_invites)
             ELSE IF possible_invite.uses < new_invite.uses
                  THEN verify_loop(old_invites, invites_now, i + 1,
                                   Append(potential_invites, possible_invite))
                  ELSE verify_loop(old_invites, invites_now, i + 1, potential_invites)

\* mutant: an invite that is gone from the fresh list counts as used
RECURSIVE verify_loop_noskip(_, _, _, _)
verify_loop_noskip(old_invites, invites_now, i, potential_invites) ==
    IF i > Len(old_invites) THEN potential_invites
    ELSE LET possible_invite == old_invites[i]
             new_invite == get_invite_from_code(invites_now, possible_invite.code)
         IN  IF new_invite = NoInvite \/ possible_invite.uses < new_invite.uses
             THEN verify_loop_noskip(old_invites, invites_now, i + 1,
                                     Append(potential_invites, possible_invite))
             ELSE verify_loop_noskip(old_invites, invites_now, i + 1, potential_invites)

\* mutant: candidates are collected in front, which reverses their order
RECURSIVE verify_loop_front(_, _, _, _)
verify_loop_front(old_invites, invites_now, i, potential_invites) ==
    IF i > Len(old_invites) THEN potential_invites
    ELSE LET possible_invite == old_invites[i]
             new_invite == get_invite_from_code(invites_now, possible_invite.code)
         IN  IF new_invite = NoInvite
             THEN verify_loop_front(old_invites, invites_now, i + 1, potential_invites)
             ELSE IF possible_invite.uses < new_invite.uses
                  THEN verify_loop_front(old_invites, invites_now, i + 1,
                                         <<possible_invite>> \o potential_invites)
                  ELSE verify_loop_front(old_invites, invites_now, i + 1, potential_invites)

verify_potential_invites_noskip(old_invites, invites_now) ==
    verify_loop_noskip(old_invites, invites_now, 1, <<>>)

verify_potential_invites_front(old_invites, invites_now) ==
    verify_loop_front(old_invites, invites_now, 1, <<>>)

verify_potential_invites(old_invites, invites_now) ==
    verify_loop(old_invites, invites_now, 1, <<>>)

(***************************************************************************)
(* Shapes of the records of the model.                                     *)
(***************************************************************************)
IdleJoin == [pc |-> "idle", guild |-> None, now |-> EmptySnap, old |-> EmptySnap]

IdleVerify == [pc |-> "idle", cg |-> None, guild |-> None, now |-> EmptySnap,
               invite |-> NoInvite, role |-> None, told |-> None, via |-> None,
               email |-> NoEmail, is_ra |-> FALSE, verified |-> FALSE]

VFlows == Users \X (1..MaxSlots)

\* A report in a guild's logs channel; user is None when the text names nobody.
Report(g, kind, u) == [guild |-> g, kind |-> kind, user |-> u]

\* How a coroutine ended: by a return (the name of the path) or by an
\* exception that nothing catches (the name of the exception).
Ended(flow, u, result) == [flow |-> flow, user |-> u, result |-> result]

\* The reports that tell the operator that a member's verification failed;
\* logs keeps these, the informational messages are not recorded.
\* What the model remembers of a user's past: a community was picked in a
\* selection menu; a verify of the user returned at the domain check; the
\* code of an invite the user joined through.
Remembered == {"selected", "bad_domain"} \cup Codes

FailureKinds == {"role_missing", "not_bound", "no_invite_join", "no_invite_verify",
                 "override_no_invite", "override_role_missing", "no_records",
                 "no_role_determined"}

(***************************************************************************)
(* The persisted store, through the one shared SQLAlchemy session.         *)
(***************************************************************************)
NoRow == [ID |-> None, email |-> NoEmail, verified |-> FALSE, is_ra |-> FALSE,
          community |-> None]

\* session.query(DbUser).filter_by(ID=...).one(), None when it raises
query_user(rows, id) ==
    IF Cardinality({r \in rows : r.ID = id}) = 1
    THEN CHOOSE r \in rows : r.ID = id
    ELSE NoRow

\* mutant: session.add instead of session.merge
session_add(rows, row) == rows \cup {row}

\* session.merge: create or replace by primary key
session_merge(rows, row) == {r \in rows : r.ID # row.ID} \cup {row}

(***************************************************************************)
(* Role lookups.                                                           *)
(***************************************************************************)
\* discord.utils.get(guild.roles, id=role_id)
get_role(g, role_id) == IF role_id \in guild_roles[g] THEN role_id ELSE None

\* mutant: a candidate whose role does not resolve is dropped without a report
RECURSIVE build_options_silent(_, _, _, _, _)
build_options_silent(potential_invites, i, g, u, acc) ==
    IF i > Len(potential_invites) THEN acc
    ELSE LET inv == potential_invites[i] IN
         IF inv.code \in DOMAIN invite_to_role
         THEN build_options_silent(potential_invites, i + 1, g, u,
                  [acc EXCEPT !.options = Append(@, invite_to_role[inv.code]),
                              !.options_to_inv = Put(@, invite_to_role[inv.code], inv)])
         ELSE IF inv.code \in DOMAIN db_invites /\ get_role(g, db_invites[inv.code]) # None
              THEN build_options_silent(potential_invites, i + 1, g, u,
                       [acc EXCEPT !.options = Append(@, db_invites[inv.code]),
                                   !.options_to_inv = Put(@, db_invites[inv.code], inv)])
              ELSE build_options_silent(potential_invites, i + 1, g, u, acc)

\* The choice set of the selection menu (bot.py:1365-1405, 406-454): role
\* name -> invite for every candidate whose role resolves, and the reports
\* for the others.
RECURSIVE build_options(_, _, _, _, _)
build_options(potential_invites, i, g, u, acc) ==
    IF i > Len(potential_invites) THEN acc
    ELSE LET inv == potential_invites[i] IN
         IF inv.code \in DOMAIN invite_to_role
         THEN build_options(potential_invites, i + 1, g, u,
                  [acc EXCEPT !.options = Append(@, invite_to_role[inv.code]),
                              !.options_to_inv = Put(@, invite_to_role[inv.code], inv)])
         ELSE IF inv.code \in DOMAIN db_invites
              THEN IF get_role(g, db_invites[inv.code]) # None
                   THEN build_options(potential_invites, i + 1, g, u,
                            [acc EXCEPT !.options = Append(@, db_invites[inv.code]),
                                        !.options_to_inv = Put(@, db_invites[inv.code], inv)])
                   ELSE build_options(potential_invites, i + 1, g, u,
                            [acc EXCEPT !.reports = @ \cup {Report(g, "role_missing", u)}])
              ELSE build_options(potential_invites, i + 1, g, u,
                       [acc EXCEPT !.reports = @ \cup {Report(g, "not_bound", u)}])

NoOptions == [options |-> <<>>, options_to_inv |-> EmptyMap, reports |-> {}]

(***************************************************************************)
(* Initial state: after on_ready (bot.py:1514-1547) in every guild.  A and *)
(* C are bound in the cache and in the database (as A is, so is every      *)
(* invite that on_ready or make_categories has seen); B is bound in the    *)
(* database only, or not bound at all.  When guild.invites() was refused   *)
(* for g2 (bot.py:1532-1533), g2 has no snapshot and C is not in the cache.*)
(***************************************************************************)
BindingsOfB == {"db", "unbound"}

\* The binding of B and the outcome of the startup fetch of g2.
Startups == {<<"db", "fetched">>, <<"unbound", "refused">>}

Init ==
    /\ uses = [c \in Codes |-> 0]
    /\ members = [g \in Guilds |-> {}]
    /\ clock = [g \in Guilds |-> 0]
    /\ nick = [u \in Users |-> NoEmail]
    /\ granted = [u \in Users |-> {}]
    /\ landing_revoked = {}
    /\ guild_roles = [g \in Guilds |-> {RoleOf[c] : c \in {d \in Codes : CodeGuild(d) = g}}]
    /\ logs = {}
    /\ \E st \in Startups :
          LET b == st[1]
              ready == IF st[2] = "refused" THEN Guilds \ {"g2"} ELSE Guilds
          IN  /\ b \in BindingsOfB
              /\ invites_cache = [g \in ready |->
                                    [t |-> 0,
                                     inv |-> [i \in 1..Len(GuildCodes[g]) |->
                                                 [code |-> GuildCodes[g][i], uses |-> 0]]]]
              /\ invite_to_role = [c \in {d \in Codes \ {"B"} : CodeGuild(d) \in ready} |->
                                     RoleOf[c]]
              /\ db_invites = [c \in (IF b = "unbound" THEN Codes \ {"B"} ELSE Codes) |->
                                 RoleOf[c]]
    /\ user_to_guild = EmptyMap
    /\ user_to_email = EmptyMap
    /\ override_user_to_code = EmptyMap
    /\ user_to_invite = EmptyMap
    /\ db_users = {}
    /\ db_committed = {}
    /\ jflow = [u \in Users |-> IdleJoin]
    /\ vflow = [f \in VFlows |-> IdleVerify]
    /\ views = {}
    /\ njoins = 0
    /\ nverifies = 0
    /\ last = Ended(None, None, None)
    /\ happened = {}
    /\ d_old = <<>> /\ d_now = <<>> /\ d_join = <<>> /\ d_verify = <<>>
    /\ d_pc = "off"

\* logs_channel.send: the failure reports are kept.
Send(reports) == logs' = logs \cup {r \in reports : r.kind \in FailureKinds}

\* A verify coroutine ends: it returns, or an exception leaves it.
Return(u, k, result) ==
    /\ vflow' = [vflow EXCEPT ![<<u, k>>] = IdleVerify]
    /\ last' = Ended("verify", u, result)

\* A verify coroutine is suspended in its next await.
Await(u, k, f) ==
    /\ vflow' = [vflow EXCEPT ![<<u, k>>] = f]
    /\ last' = last

\* A coroutine that is between the cache cleanup and session.commit() holds
\* the scheduler: there is no await between bot.py:665 and bot.py:677.
Running == \E f \in VFlows : vflow[f].pc = "commit"

(***************************************************************************)
(* The platform: user u joins guild g through invite c; the use counter    *)
(* of c goes up and a member-join event is on its way to the bot.  The     *)
(* users are interchangeable: the first to join is called FirstJoiner.     *)
(***************************************************************************)
FirstJoiner == "u1"

MemberJoins(u, c) ==
    /\ ~Running
    /\ njoins < MaxJoins
    /\ njoins = 0 => u = FirstJoiner
    /\ u \notin members[CodeGuild(c)]
    /\ jflow[u].pc = "idle"
    /\ uses' = [uses EXCEPT ![c] = @ + 1]
    /\ members' = [members EXCEPT ![CodeGuild(c)] = @ \cup {u}]
    /\ clock' = [clock EXCEPT ![CodeGuild(c)] = @ + 1]
    /\ jflow' = [jflow EXCEPT ![u] = [IdleJoin EXCEPT !.pc = "event", !.guild = CodeGuild(c)]]
    /\ njoins' = njoins + 1
    /\ happened' = happened \cup {<<u, c>>}
    /\ UNCHANGED <<nick, granted, landing_revoked, guild_roles, logs, cvars, dbvars,
                   vflow, views, nverifies, last, dvars>>

\* mutant: on_member_join starts by resetting the role cache
JoinStart_unbinds(u) ==
    /\ ~Running
    /\ jflow[u].pc = "event"
    /\ user_to_guild' = Put(user_to_guild, u, jflow[u].guild)
    /\ invite_to_role' = EmptyMap
    /\ jflow' = [jflow EXCEPT ![u].pc = "fetch"]
    /\ UNCHANGED <<pvars, invites_cache, user_to_email,
                   override_user_to_code, user_to_invite, dbvars, vflow, views,
                   njoins, nverifies, last, dvars, happened>>

(***************************************************************************)
(* on_member_join, bot.py:1302-1319: up to `await member.guild.invites()`. *)
(***************************************************************************)
JoinStart(u) ==
    /\ ~Running
    /\ jflow[u].pc = "event"
    /\ user_to_guild' = Put(user_to_guild, u, jflow[u].guild)
    /\ jflow' = [jflow EXCEPT ![u].pc = "fetch"]
    /\ UNCHANGED <<pvars, invites_cache, invite_to_role, user_to_email,
                   override_user_to_code, user_to_invite, dbvars, vflow, views,
                   njoins, nverifies, last, dvars, happened>>

(***************************************************************************)
(* on_member_join, bot.py:1319-1325: the invites arrive, the old snapshot  *)
(* is read, up to `await member.create_dm()`.                              *)
(***************************************************************************)
JoinFetched(u) ==
    /\ ~Running
    /\ jflow[u].pc = "fetch"
    /\ IF jflow[u].guild \in DOMAIN invites_cache
       THEN /\ jflow' = [jflow EXCEPT ![u].pc = "dm",
                                      ![u].now = FetchInvites(jflow[u].guild),
                                      ![u].old = invites_cache[jflow[u].guild]]
            /\ last' = last
       ELSE /\ jflow' = [jflow EXCEPT ![u] = IdleJoin]
            /\ last' = Ended("join", u, "KeyError:invites_cache")
    /\ UNCHANGED <<pvars, cvars, dbvars, vflow, views, njoins, nverifies, dvars, happened>>

(***************************************************************************)
(* on_member_join, bot.py:1331-1459: the Differ and what follows from the  *)
(* number of candidates.                                                   *)
(***************************************************************************)
JoinResolve(u) ==
    /\ ~Running
    /\ jflow[u].pc = "dm"
    /\ jflow' = [jflow EXCEPT ![u] = IdleJoin]
    /\ LET g == jflow[u].guild
           invites_now == jflow[u].now
           potential_invites == join_potential_invites(jflow[u].old.inv, invites_now.inv)
           num_overlap == Len(potential_invites)
           built == build_options(potential_invites, 1, g, u, NoOptions)
       IN  IF num_overlap = 1
           THEN /\ user_to_invite' = Put(user_to_invite, u, potential_invites[1])
                /\ invites_cache' = Put(invites_cache, g, invites_now)
                /\ last' = Ended("join", u, "resolved")
                /\ UNCHANGED <<logs, views>>
           ELSE IF num_overlap > 1
           THEN /\ views' = views \cup {[user |-> u, guild |-> None,
                                         options |-> built.options,
                                         options_to_inv |-> built.options_to_inv]}
                /\ Send({IF r.kind = "not_bound" THEN [r EXCEPT !.user = None] ELSE r :
                             r \in built.reports})
                /\ last' = Ended("join", u, "ambiguous")
                /\ UNCHANGED <<user_to_invite, invites_cache>>
           ELSE /\ invites_cache' = Put(invites_cache, g, invites_now)
                /\ Send({Report(g, "no_invite_join", u)})
                /\ last' = Ended("join", u, "nocandidate")
                /\ UNCHANGED <<user_to_invite, views>>
    /\ UNCHANGED <<uses, members, clock, nick, granted, landing_revoked, guild_roles,
                   invite_to_role, user_to_guild, user_to_email, override_user_to_code,
                   dbvars, vflow, njoins, nverifies, dvars, happened>>

(***************************************************************************)
(* verify, bot.py:249-284: the already-verified check and the choice of    *)
(* the guild, up to `await guild.invites()`.  ctx_guild is the guild the   *)
(* interaction came from, None for a direct message.                       *)
(***************************************************************************)
\* mutant: the already-verified check is left out
verify_begin_nocheck(u, ctx_guild) ==
    IF u \in DOMAIN user_to_guild
    THEN [result |-> None, guild |-> user_to_guild[u]]
    ELSE IF ctx_guild # None
    THEN [result |-> None, guild |-> ctx_guild]
    ELSE [result |-> "no_guild", guild |-> None]

verify_begin(u, ctx_guild) ==
    IF query_user(db_users, u) # NoRow /\ query_user(db_users, u).verified
    THEN [result |-> "already_verified", guild |-> None]
    ELSE IF u \in DOMAIN user_to_guild
    THEN [result |-> None, guild |-> user_to_guild[u]]
    ELSE IF ctx_guild # None
    THEN [result |-> None, guild |-> ctx_guild]
    ELSE [result |-> "no_guild", guild |-> None]

\* The coroutine is suspended in `await guild.invites()`, or it has returned.
Begun(u, k, ctx_guild, via) ==
    LET b == verify_begin(u, ctx_guild) IN
    IF b.result = None
    THEN /\ vflow' = [vflow EXCEPT ![<<u, k>>] =
                         [IdleVerify EXCEPT !.pc = "fetch", !.cg = ctx_guild, !.guild = b.guild,
                                            !.via = via]]
         /\ last' = last
    ELSE /\ vflow' = vflow
         /\ last' = Ended("verify", u, b.result)

\* The coroutines of one user take the free slot of the lowest number.
FreeSlot(u, k) ==
    /\ vflow[<<u, k>>].pc = "idle"
    /\ \A j \in 1..(k-1) : vflow[<<u, j>>].pc # "idle"

\* The Verify button (bot.py:230-233) or the /verify command (bot.py:242).
VerifyStart(u, k, ctx_guild) ==
    /\ ~Running
    /\ nverifies < MaxVerifies
    /\ FreeSlot(u, k)
    /\ IF ctx_guild = None THEN TRUE ELSE u \in members[ctx_guild]
    /\ Begun(u, k, ctx_guild, "button")
    /\ nverifies' = nverifies + 1
    /\ UNCHANGED <<pvars, cvars, dbvars, jflow, views, njoins, dvars, happened>>

(***************************************************************************)
(* CommunitySelectDropdown.callback, bot.py:156-160: the user picks a      *)
(* community; the pick is recorded and verify starts.                      *)
(***************************************************************************)
\* mutant: the selection callback stores the override entry only
SelectCommunity_override_only(u, k, view, label) ==
    /\ ~Running
    /\ nverifies < MaxVerifies
    /\ FreeSlot(u, k)
    /\ view \in views
    /\ view.user = u
    /\ label \in DOMAIN view.options_to_inv
    /\ override_user_to_code' = Put(override_user_to_code, u, view.options_to_inv[label])
    /\ Begun(u, k, view.guild, "select")
    /\ nverifies' = nverifies + 1
    /\ happened' = happened \cup {<<u, "selected">>}
    /\ UNCHANGED <<pvars, invites_cache, invite_to_role, user_to_guild, user_to_email,
                   user_to_invite, dbvars, jflow, views, njoins, dvars>>

SelectCommunity(u, k, view, label) ==
    /\ ~Running
    /\ nverifies < MaxVerifies
    /\ FreeSlot(u, k)
    /\ view \in views
    /\ view.user = u
    /\ label \in DOMAIN view.options_to_inv
    /\ override_user_to_code' = Put(override_user_to_code, u, view.options_to_inv[label])
    /\ user_to_invite' = Put(user_to_invite, u, view.options_to_inv[label])
    /\ Begun(u, k, view.guild, "select")
    /\ nverifies' = nverifies + 1
    /\ happened' = happened \cup {<<u, "selected">>}
    /\ UNCHANGED <<pvars, invites_cache, invite_to_role, user_to_guild, user_to_email,
                   dbvars, jflow, views, njoins, dvars>>

(***************************************************************************)
(* Role of one resolved invite, bot.py:306-330 and 374-402: the cache,     *)
(* then the DbInvite row; abort when the row names a role that is gone.    *)
(***************************************************************************)
resolve_role(g, code) ==
    IF code \in DOMAIN invite_to_role
    THEN [abort |-> FALSE, role |-> invite_to_role[code]]
    ELSE IF code \in DOMAIN db_invites
         THEN IF get_role(g, db_invites[code]) # None
              THEN [abort |-> FALSE, role |-> db_invites[code]]
              ELSE [abort |-> TRUE, role |-> None]
         ELSE [abort |-> FALSE, role |-> None]

\* "Member has been overriden", bot.py:489-555.
resolve_override(g, u, old_invites) ==
    LET invite_code == override_user_to_code[u].code
        invite == get_invite_from_code(old_invites, invite_code)
    IN  IF invite = NoInvite
        THEN [abort |-> TRUE, result |-> "override_no_invite", invite |-> NoInvite,
              role |-> None, reports |-> {Report(g, "override_no_invite", u)}]
        ELSE IF invite_code \in DOMAIN invite_to_role
        THEN [abort |-> FALSE, result |-> None, invite |-> invite,
              role |-> invite_to_role[invite_code],
              reports |-> {Report(g, "used_cached", None)}]
        ELSE IF invite_code \in DOMAIN db_invites
        THEN IF get_role(g, db_invites[invite_code]) # None
             THEN [abort |-> FALSE, result |-> None, invite |-> invite,
                   role |-> db_invites[invite_code],
                   reports |-> {Report(g, "used_databased", None)}]
             ELSE [abort |-> TRUE, result |-> "override_role_missing", invite |-> invite,
                   role |-> None, reports |-> {Report(g, "override_role_missing", u)}]
        ELSE [abort |-> TRUE, result |-> "override_not_bound", invite |-> invite,
              role |-> None, reports |-> {}]

(***************************************************************************)
(* verify, bot.py:284-563: the invites arrive; the old snapshot is read;   *)
(* the invite and its role are resolved; the e-mail prompt is sent.        *)
(***************************************************************************)
VerifyFetched(u, k) ==
    /\ ~Running
    /\ vflow[<<u, k>>].pc = "fetch"
    /\ LET f == vflow[<<u, k>>]
           g == f.guild
           invites_now == FetchInvites(g)
           End(res) == Return(u, k, res)
           Prompt(old, inv, role) ==
               Await(u, k, [f EXCEPT !.pc = "modal", !.cg = None, !.now = invites_now,
                                     !.invite = inv, !.role = role, !.via = None])
       IN  IF g \notin DOMAIN invites_cache
           THEN /\ End("KeyError:invites_cache")
                /\ UNCHANGED <<logs, views>>
           ELSE LET old_invites == invites_cache[g]
                    potential_invites ==
                        verify_potential_invites(old_invites.inv, invites_now.inv)
                    num_overlap == Len(potential_invites)
                    built == build_options(potential_invites, 1, g, u, NoOptions)
                IN
                IF u \notin members[g]
                THEN /\ End("not_member")
                     /\ UNCHANGED <<logs, views>>
                ELSE IF u \in DOMAIN user_to_invite
                THEN LET invite == user_to_invite[u]
                         r == resolve_role(g, invite.code)
                     IN  IF r.abort
                         THEN /\ End("role_missing")
                              /\ Send({Report(g, "role_missing", u)})
                              /\ views' = views
                         ELSE /\ Prompt(old_invites, invite, r.role)
                              /\ UNCHANGED <<logs, views>>
                ELSE IF u \notin DOMAIN override_user_to_code
                THEN IF num_overlap = 1
                     THEN LET invite == potential_invites[1]
                              r == resolve_role(g, invite.code)
                          IN  IF r.abort
                              THEN /\ End("role_missing")
                                   /\ Send({Report(g, "role_missing", u)})
                                   /\ views' = views
                              ELSE /\ Prompt(old_invites, invite, r.role)
                                   /\ UNCHANGED <<logs, views>>
                     ELSE IF num_overlap > 1
                     THEN /\ views' = views \cup {[user |-> u, guild |-> f.cg,
                                                   options |-> built.options,
                                                   options_to_inv |-> built.options_to_inv]}
                          /\ Send(built.reports)
                          /\ End("ambiguous")
                     ELSE /\ Send({Report(g, "no_invite_verify", u)})
                          /\ End("nocandidate")
                          /\ views' = views
                ELSE LET r == resolve_override(g, u, old_invites.inv)
                     IN  /\ Send(r.reports)
                         /\ views' = views
                         /\ IF r.abort THEN End(r.result)
                            ELSE Prompt(old_invites, r.invite, r.role)
    /\ UNCHANGED <<uses, members, clock, nick, granted, landing_revoked, guild_roles,
                   cvars, dbvars, jflow, njoins, nverifies, dvars, happened>>

(***************************************************************************)
(* The e-mail prompt (VerifyModal, bot.py:101-121; timeout=60, bot.py:561).*)
(***************************************************************************)
\* mutant: any address is taken
in_pitt_any(email) == TRUE

\* "@pitt.edu" in email
in_pitt(email) == \E i \in 1..Len(email) : email[i] = "@pitt.edu"

\* email[: email.find("@pitt.edu")]
nickname_of(email) ==
    SubSeq(email, 1, (CHOOSE i \in 1..Len(email) :
                         /\ email[i] = "@pitt.edu"
                         /\ \A j \in 1..(i-1) : email[j] # "@pitt.edu") - 1)

\* VerifyModal.callback: the user submits an address and is answered
ModalSubmit(u, k, email) ==
    /\ ~Running
    /\ vflow[<<u, k>>].pc = "modal"
    /\ user_to_email' = Put(user_to_email, u, email)
    /\ vflow' = [vflow EXCEPT ![<<u, k>>].pc = "woken",
                              ![<<u, k>>].told = IF in_pitt(email) THEN "welcome"
                                                 ELSE "retry"]
    /\ UNCHANGED <<pvars, invites_cache, invite_to_role, user_to_guild,
                   override_user_to_code, user_to_invite, dbvars, jflow, views,
                   njoins, nverifies, last, dvars, happened>>

\* mutant: the prompt has no timeout
ModalTimeout_never(u, k) == FALSE

\* VerifyModal.on_timeout: nothing was submitted
ModalTimeout(u, k) ==
    /\ ~Running
    /\ vflow[<<u, k>>].pc = "modal"
    /\ vflow' = [vflow EXCEPT ![<<u, k>>].pc = "woken"]
    /\ UNCHANGED <<pvars, cvars, dbvars, jflow, views, njoins, nverifies, last, dvars, happened>>

(***************************************************************************)
(* verify, bot.py:566-591: after modal.wait(), up to `await member.edit`.  *)
(***************************************************************************)
VerifyWoken(u, k) ==
    /\ ~Running
    /\ vflow[<<u, k>>].pc = "woken"
    /\ LET f == vflow[<<u, k>>] IN
       IF u \notin DOMAIN user_to_email
       THEN /\ Send({Report(f.guild, "no_records", u)})
            /\ Return(u, k, "no_email")
       ELSE IF ~in_pitt(user_to_email[u])
       THEN /\ Send({})
            /\ Return(u, k, "bad_domain")
       ELSE /\ Send({})
            /\ Await(u, k, [f EXCEPT !.pc = "edit", !.email = user_to_email[u],
                                     !.verified = TRUE])
    /\ happened' = IF u \in DOMAIN user_to_email /\ ~in_pitt(user_to_email[u])
                   THEN happened \cup {<<u, "bad_domain">>}
                   ELSE happened
    /\ UNCHANGED <<uses, members, clock, nick, granted, landing_revoked, guild_roles,
                   cvars, dbvars, jflow, views, njoins, nverifies, dvars>>

(***************************************************************************)
(* verify, bot.py:591-676: the completion.  The platform calls (member.edit*)
(* at 591, add_roles at 603/609 and 615, set_permissions at 635, the sends *)
(* to the logs channel) are awaits, but from 591 to 639 the coroutine      *)
(* reads and writes no cache and no row, so the steps of other coroutines  *)
(* commute with these calls and the stretch is one action.  `refused` is   *)
(* the platform call that raises discord.Forbidden, None when none does.   *)
(* Lines 665-676 merge the Member Record into the session, store the       *)
(* snapshot and delete the caches of the user; session.commit() is next.   *)
(***************************************************************************)
Refusals == {None, "edit", "tier", "role", "perm"}

\* mutant: the use count is compared with the one after the join
is_user_ra_after(invite) == invite.uses <= 1

\* bot.py:597-602: the first use of the invite makes the member the RA
is_user_ra(invite) == invite.uses = 0

\* mutant: the record is written before the address is accepted
new_member_unverified(u, f, ra) ==
    [ID |-> u, email |-> f.email, verified |-> FALSE, is_ra |-> ra,
     community |-> IF f.role # None THEN f.role ELSE "resident"]

new_member(u, f, ra) ==
    [ID |-> u, email |-> f.email, verified |-> f.verified, is_ra |-> ra,
     community |-> IF f.role # None THEN f.role ELSE "resident"]

VerifyComplete(u, k, refused) ==
    /\ ~Running
    /\ vflow[<<u, k>>].pc = "edit"
    /\ LET f == vflow[<<u, k>>]
           g == f.guild
           ra == is_user_ra(f.invite)
           tier == <<g, IF ra THEN "RA" ELSE "resident">>
           Untouched == UNCHANGED <<landing_revoked, db_users, invites_cache, user_to_email,
                                    user_to_guild, override_user_to_code, user_to_invite>>
       IN
       IF refused = "edit"
       THEN /\ Return(u, k, "Forbidden:edit")
            /\ UNCHANGED <<nick, granted, logs>>
            /\ Untouched
       ELSE
       /\ nick' = [nick EXCEPT ![u] = nickname_of(f.email)]
       /\ IF refused = "tier"
          THEN /\ Return(u, k, "Forbidden:add_roles")
               /\ UNCHANGED <<granted, logs>>
               /\ Untouched
          ELSE IF f.role = None
          THEN /\ granted' = [granted EXCEPT ![u] = @ \cup {tier}]
               /\ Send({Report(g, "no_role_determined", u)})
               /\ Return(u, k, "no_role")
               /\ Untouched
          ELSE IF refused = "role"
          THEN /\ granted' = [granted EXCEPT ![u] = @ \cup {tier}]
               /\ Return(u, k, "Forbidden:add_roles")
               /\ UNCHANGED logs
               /\ Untouched
          ELSE
          /\ granted' = [granted EXCEPT ![u] = @ \cup {tier, <<g, f.role>>}]
          /\ UNCHANGED logs
          /\ IF f.invite.code \notin DOMAIN invite_to_role
             THEN /\ Return(u, k, "KeyError:invite_to_role")
                  /\ Untouched
             ELSE IF refused = "perm"
             THEN /\ Return(u, k, "Forbidden:set_permissions")
                  /\ Untouched
             ELSE
             /\ landing_revoked' = landing_revoked \cup {<<g, invite_to_role[f.invite.code]>>}
             /\ db_users' = session_merge(db_users, new_member(u, f, ra))
             /\ invites_cache' = Put(invites_cache, g, f.now)
             /\ IF u \notin DOMAIN user_to_email
                THEN /\ Return(u, k, "KeyError:user_to_email")
                     /\ UNCHANGED <<user_to_email, user_to_guild, override_user_to_code,
                                    user_to_invite>>
                ELSE /\ user_to_email' = Del(user_to_email, u)
                     /\ IF u \notin DOMAIN user_to_guild
                        THEN /\ Return(u, k, "KeyError:user_to_guild")
                             /\ UNCHANGED <<user_to_guild, override_user_to_code,
                                            user_to_invite>>
                        ELSE /\ user_to_guild' = Del(user_to_guild, u)
                             /\ override_user_to_code' = Del(override_user_to_code, u)
                             /\ user_to_invite' = Del(user_to_invite, u)
                             /\ Await(u, k, [f EXCEPT !.pc = "commit", !.is_ra = ra])
    /\ UNCHANGED <<uses, members, clock, guild_roles, invite_to_role, db_invites,
                   db_committed, jflow, views, njoins, nverifies, dvars, happened>>

(***************************************************************************)
(* verify, bot.py:677: session.commit() succeeds, or raises and the        *)
(* session's pending rows are rolled back.                                 *)
(***************************************************************************)
VerifyCommit(u, k, ok) ==
    /\ vflow[<<u, k>>].pc = "commit"
    /\ IF ok
       THEN /\ db_committed' = db_users
            /\ db_users' = db_users
            /\ Return(u, k, "completed")
       ELSE /\ db_users' = db_committed
            /\ db_committed' = db_committed
            /\ Return(u, k, "commit_failed")
    /\ UNCHANGED <<pvars, cvars, db_invites, jflow, views, njoins, nverifies, dvars, happened>>

(***************************************************************************)
(* The system.                                                             *)
(***************************************************************************)
Next ==
    \/ \E u \in Users, c \in Codes : MemberJoins(u, c)
    \/ \E u \in Users : JoinStart(u)
    \/ \E u \in Users : JoinFetched(u)
    \/ \E u \in Users : JoinResolve(u)
    \/ \E u \in Users, k \in 1..MaxSlots, g \in Guilds \cup {None} : VerifyStart(u, k, g)
    \/ \E u \in Users, k \in 1..MaxSlots, v \in views :
          \E label \in DOMAIN v.options_to_inv : SelectCommunity(u, k, v, label)
    \/ \E u \in Users, k \in 1..MaxSlots : VerifyFetched(u, k)
    \/ \E u \in Users, k \in 1..MaxSlots, e \in Emails : ModalSubmit(u, k, e)
    \/ \E u \in Users, k \in 1..MaxSlots : ModalTimeout(u, k)
    \/ \E u \in Users, k \in 1..MaxSlots : VerifyWoken(u, k)
    \/ \E u \in Users, k \in 1..MaxSlots, r \in Refusals : VerifyComplete(u, k, r)
    \/ \E u \in Users, k \in 1..MaxSlots, ok \in BOOLEAN : VerifyCommit(u, k, ok)

Spec == Init /\ [][Next]_vars

(***************************************************************************)
(* The system under fair scheduling.  The event loop runs every coroutine  *)
(* that is ready: a dispatched event gets its handler, an awaited platform *)
(* call returns (or raises), and the timer of the prompt                   *)
(* (VerifyModal(timeout=60), bot.py:561) fires when nothing is submitted.  *)
(* Users are under no obligation: joins, button presses, selections and    *)
(* submissions carry no fairness.  Here every guild was fetched at         *)
(* startup and a user has one verify under way at a time.                  *)
(***************************************************************************)
FairInit == Init /\ DOMAIN invites_cache = Guilds

FairNext ==
    \/ \E u \in Users, c \in Codes : MemberJoins(u, c)
    \/ \E u \in Users : JoinStart(u)
    \/ \E u \in Users : JoinFetched(u)
    \/ \E u \in Users : JoinResolve(u)
    \/ \E u \in Users, g \in Guilds \cup {None} : VerifyStart(u, 1, g)
    \/ \E u \in Users, v \in views :
          \E label \in DOMAIN v.options_to_inv : SelectCommunity(u, 1, v, label)
    \/ \E u \in Users : VerifyFetched(u, 1)
    \/ \E u \in Users, e \in Emails : ModalSubmit(u, 1, e)
    \/ \E u \in Users : ModalTimeout(u, 1)
    \/ \E u \in Users : VerifyWoken(u, 1)
    \/ \E u \in Users, r \in Refusals : VerifyComplete(u, 1, r)
    \/ \E u \in Users, ok \in BOOLEAN : VerifyCommit(u, 1, ok)

\* a step of a coroutine, or the firing of a prompt's timer
Scheduled ==
    \/ \E u \in Users : JoinStart(u) \/ JoinFetched(u) \/ JoinResolve(u)
    \/ \E u \in Users, k \in 1..MaxSlots :
          \/ VerifyFetched(u, k)
          \/ ModalTimeout(u, k)
          \/ VerifyWoken(u, k)
          \/ \E r \in Refusals : VerifyComplete(u, k, r)
          \/ \E ok \in BOOLEAN : VerifyCommit(u, k, ok)

Fairness == WF_vars(Scheduled)

FairSpec == FairInit /\ [][FairNext]_vars /\ Fairness

(***************************************************************************)
(* One user and the prompt: FirstJoiner joins, verifies one coroutine at a *)
(* time and types any of the Submissions into the prompt.                  *)
(***************************************************************************)
PromptNext ==
    \/ \E c \in Codes : MemberJoins(FirstJoiner, c)
    \/ JoinStart(FirstJoiner)
    \/ JoinFetched(FirstJoiner)
    \/ JoinResolve(FirstJoiner)
    \/ \E g \in Guilds \cup {None} : VerifyStart(FirstJoiner, 1, g)
    \/ VerifyFetched(FirstJoiner, 1)
    \/ \E e \in Submissions : ModalSubmit(FirstJoiner, 1, e)
    \/ ModalTimeout(FirstJoiner, 1)
    \/ VerifyWoken(FirstJoiner, 1)
    \/ \E r \in Refusals : VerifyComplete(FirstJoiner, 1, r)
    \/ \E ok \in BOOLEAN : VerifyCommit(FirstJoiner, 1, ok)

PromptSpec == Init /\ [][PromptNext]_vars

(***************************************************************************)
(* The Differ on its own: every pair of snapshots of at most MaxLen        *)
(* invites with distinct codes and use counts up to MaxUses, in every      *)
(* order, is handed to the copy in on_member_join and then to the copy in  *)
(* verify.  An absent old snapshot is the empty one.                       *)
(***************************************************************************)
InvitesOf(codes) == {[code |-> c, uses |-> n] : c \in codes, n \in 0..MaxUses}

Snapshots ==
    UNION {{s \in [1..n -> InvitesOf(Codes)] :
               \A i, j \in 1..n : i # j => s[i].code # s[j].code} :
           n \in 0..(IF MaxLen < Cardinality(Codes) THEN MaxLen ELSE Cardinality(Codes))}

DifferInit ==
    /\ uses = [c \in Codes |-> 0]
    /\ members = [g \in Guilds |-> {}]
    /\ clock = [g \in Guilds |-> 0]
    /\ nick = [u \in Users |-> NoEmail]
    /\ granted = [u \in Users |-> {}]
    /\ landing_revoked = {}
    /\ guild_roles = [g \in Guilds |-> {}]
    /\ logs = {}
    /\ invites_cache = EmptyMap
    /\ invite_to_role = EmptyMap
    /\ db_invites = EmptyMap
    /\ user_to_guild = EmptyMap
    /\ user_to_email = EmptyMap
    /\ override_user_to_code = EmptyMap
    /\ user_to_invite = EmptyMap
    /\ db_users = {}
    /\ db_committed = {}
    /\ jflow = [u \in Users |-> IdleJoin]
    /\ vflow = [f \in VFlows |-> IdleVerify]
    /\ views = {}
    /\ njoins = 0
    /\ nverifies = 0
    /\ last = Ended(None, None, None)
    /\ happened = {}
    /\ d_old \in Snapshots
    /\ d_now \in Snapshots
    /\ d_join = <<>>
    /\ d_verify = <<>>
    /\ d_pc = "ready"

DifferInJoin ==
    /\ d_pc = "ready"
    /\ d_join' = join_potential_invites(d_old, d_now)
    /\ d_pc' = "joined"
    /\ UNCHANGED <<pvars, cvars, dbvars, fvars, d_old, d_now, d_verify>>

DifferInVerify ==
    /\ d_pc = "joined"
    /\ d_verify' = verify_potential_invites(d_old, d_now)
    /\ d_pc' = "done"
    /\ UNCHANGED <<pvars, cvars, dbvars, fvars, d_old, d_now, d_join>>

DifferNext == DifferInJoin \/ DifferInVerify

DifferSpec == DifferInit /\ [][DifferNext]_vars

\* The invites of the old snapshot whose use count is larger in the fresh one.
Increased(old, now) ==
    {old[i] : i \in {j \in 1..Len(old) :
                        \E m \in 1..Len(now) : /\ now[m].code = old[j].code
                                               /\ now[m].uses > old[j].uses}}

\* The invites of the old snapshot that the fresh one no longer lists.
Gone(old, now) ==
    {old[i] : i \in {j \in 1..Len(old) :
                        \A m \in 1..Len(now) : now[m].code # old[j].code}}

Range(seq) == {seq[i] : i \in 1..Len(seq)}

PositionIn(seq, x) == CHOOSE i \in 1..Len(seq) : seq[i] = x

\* seq lists exactly the members of set, each once, in the order of old
ListsInOrderOf(seq, set, old) ==
    /\ Range(seq) = set
    /\ Len(seq) = Cardinality(set)
    /\ \A a, b \in 1..Len(seq) : a < b => PositionIn(old, seq[a]) < PositionIn(old, seq[b])

(***************************************************************************)
(* C8: when exactly one invite's use count strictly increased, both copies *)
(* of the Differ yield that invite and no other, whatever the order of     *)
(* the invites in the two snapshots.                                       *)
(***************************************************************************)
C8_UniqueCandidate ==
    Cardinality(Increased(d_old, d_now)) = 1 =>
        /\ d_pc \in {"joined", "done"} => Range(d_join) = Increased(d_old, d_now) /\ Len(d_join) = 1
        /\ d_pc = "done" => Range(d_verify) = Increased(d_old, d_now) /\ Len(d_verify) = 1

C8_Witness ==
    /\ d_pc = "done"
    /\ Cardinality(Increased(d_old, d_now)) = 1
    /\ Len(d_old) = 3 /\ Len(d_now) = 3
    /\ d_old[1].code # d_now[1].code
    /\ d_join = d_verify /\ Len(d_join) = 1
    /\ d_join[1] = d_old[3]

(***************************************************************************)
(* C9: when no invite's use count increased, both copies of the Differ     *)
(* yield the empty list; and an invite of the old snapshot that the fresh  *)
(* snapshot does not list is never a candidate.                            *)
(***************************************************************************)
C9_NoCandidate ==
    /\ d_pc \in {"joined", "done"} =>
          /\ Increased(d_old, d_now) = {} => d_join = <<>>
          /\ Range(d_join) \cap Gone(d_old, d_now) = {}
    /\ d_pc = "done" =>
          /\ Increased(d_old, d_now) = {} => d_verify = <<>>
          /\ Range(d_verify) \cap Gone(d_old, d_now) = {}

C9_Witness ==
    /\ d_pc = "done"
    /\ Increased(d_old, d_now) = {}
    /\ Gone(d_old, d_now) # {}
    /\ Len(d_now) > 0
    /\ d_join = <<>> /\ d_verify = <<>>

(***************************************************************************)
(* C10: with two or more increased invites, the candidate list of both     *)
(* copies of the Differ holds exactly the invites whose use count strictly *)
(* increased, each once, in the order of the old snapshot.                 *)
(***************************************************************************)
C10_StableCandidates ==
    Cardinality(Increased(d_old, d_now)) >= 2 =>
        /\ d_pc \in {"joined", "done"} =>
              ListsInOrderOf(d_join, Increased(d_old, d_now), d_old)
        /\ d_pc = "done" =>
              ListsInOrderOf(d_verify, Increased(d_old, d_now), d_old)

C10_Witness ==
    /\ d_pc = "done"
    /\ Cardinality(Increased(d_old, d_now)) = 2
    /\ Len(d_old) = 3
    /\ d_verify = <<d_old[1], d_old[3]>>
    /\ d_join = d_verify

(***************************************************************************)
(* Vocabulary of the session state machine (spec 4.4) over the caches.     *)
(***************************************************************************)
Slots == 1..MaxSlots

\* dict.get(key)
GuildOf(u) == IF u \in DOMAIN user_to_guild THEN user_to_guild[u] ELSE None
InviteOf(u) == IF u \in DOMAIN user_to_invite THEN user_to_invite[u] ELSE NoInvite

\* AWAITING_EMAIL: an e-mail prompt of the user is open
AwaitingEmail(u) == \E k \in Slots : vflow[<<u, k>>].pc = "modal"

\* AMBIGUOUS: a selection menu was sent to the user, who has not picked yet
Ambiguous(u) ==
    /\ \E v \in views : v.user = u
    /\ u \notin DOMAIN override_user_to_code

\* the user has a Member Record with verified = true among the rows
IsVerified(rows, u) == \E r \in rows : r.ID = u /\ r.verified

\* the user has no entry in any of the four session caches
SessionDeleted(u) ==
    /\ u \notin DOMAIN user_to_email
    /\ u \notin DOMAIN user_to_guild
    /\ u \notin DOMAIN override_user_to_code
    /\ u \notin DOMAIN user_to_invite

\* a report that names the user and tells of a failure is in the guild's logs
FailureReported(u) == \E r \in logs : r.user = u /\ r.kind \in FailureKinds

\* a step of an automatic trigger for the user: on_member_join, or verify
\* up to its resolution, not the selection callback
AutomaticStep(u) ==
    \/ JoinStart(u)
    \/ JoinFetched(u)
    \/ JoinResolve(u)
    \/ \E k \in Slots, g \in Guilds \cup {None} : VerifyStart(u, k, g)
    \/ \E k \in Slots : VerifyFetched(u, k)

\* verify is invoked for the user: button, command or selection callback
VerifyInvoked(u) ==
    \/ \E k \in Slots, g \in Guilds \cup {None} : VerifyStart(u, k, g)
    \/ \E k \in Slots, v \in views :
          \E label \in DOMAIN v.options_to_inv : SelectCommunity(u, k, v, label)

(***************************************************************************)
(* C1: an explicit override always wins.  Whenever verify resolves the     *)
(* invite of a user who has made a community selection that is still on    *)
(* record, the invite it goes on with (for the role and the RA flag) is    *)
(* the selected one.                                                       *)
(***************************************************************************)
C1_OverrideWins ==
    [][\A u \in Users, k \in Slots :
          (/\ vflow[<<u, k>>].pc = "fetch"
           /\ vflow'[<<u, k>>].pc = "modal"
           /\ u \in DOMAIN override_user_to_code)
          => vflow'[<<u, k>>].invite = override_user_to_code[u]]_vars

(***************************************************************************)
(* C2: re-entrancy.  A step of on_member_join or of an automatically       *)
(* resolving verify for a user whose session is AMBIGUOUS or               *)
(* AWAITING_EMAIL does not overwrite the community (user_to_guild) or the  *)
(* candidate invite (user_to_invite) that the session has stored.          *)
(***************************************************************************)
C2_NoAutomaticOverwrite ==
    [][\A u \in Users :
          ((Ambiguous(u) \/ AwaitingEmail(u)) /\ AutomaticStep(u))
          => /\ u \in DOMAIN user_to_guild => GuildOf(u)' = GuildOf(u)
             /\ u \in DOMAIN user_to_invite => InviteOf(u)' = InviteOf(u)]_vars

(***************************************************************************)
(* C3: the session entries of a user are deleted only after the            *)
(* persistence attempt has been made and observed: a coroutine that has    *)
(* yet to call session.commit() still has its user's session, and after a  *)
(* failed commit the session is retained and the failure is reported.      *)
(***************************************************************************)
C3_PersistBeforeDelete ==
    /\ \A u \in Users, k \in Slots :
          vflow[<<u, k>>].pc = "commit" => ~SessionDeleted(u)
    /\ \A u \in Users :
          last = Ended("verify", u, "commit_failed") =>
              (u \in DOMAIN user_to_guild /\ FailureReported(u))

(***************************************************************************)
(* C4: completion happens effectively once.  A verify coroutine carries    *)
(* out the completion side effects (rename, role grants, upsert) only for  *)
(* a user whom no other coroutine has completed already, and no coroutine  *)
(* fails on a cache entry that another one has cleaned up.                 *)
(***************************************************************************)
C4_CompletesOnce ==
    /\ [][\A u \in Users, k \in Slots :
             (\E r \in Refusals \ {"edit"} : VerifyComplete(u, k, r))
             => ~IsVerified(db_committed, u)]_vars
    /\ [](\A u \in Users : last # Ended("verify", u, "KeyError:user_to_email"))

(***************************************************************************)
(* C5: the Completion Handler is idempotent.  A user has at most one       *)
(* Member Record; and when verify is invoked for a user whose completion   *)
(* has been committed, the invocation ends at once with the                *)
(* already-verified answer: no exception, no role grant, no rename, no     *)
(* other row, and exactly one Member Record of the user afterwards.        *)
(***************************************************************************)
C5_Idempotent ==
    /\ [](\A u \in Users : Cardinality({r \in db_users : r.ID = u}) <= 1)
    /\ [][\A u \in Users :
             (IsVerified(db_committed, u) /\ VerifyInvoked(u))
             => /\ last' = Ended("verify", u, "already_verified")
                /\ vflow' = vflow
                /\ granted' = granted
                /\ nick' = nick
                /\ db_users' = db_users
                /\ Cardinality({r \in db_users' : r.ID = u}) = 1]_vars

C5_Witness ==
    \E u \in Users :
        /\ last = Ended("verify", u, "already_verified")
        /\ IsVerified(db_committed, u)
        /\ Cardinality({r \in db_users : r.ID = u}) = 1
        /\ nverifies >= 2

(***************************************************************************)
(* C6: no member is left half-verified without an operator-visible signal. *)
(* When a verify coroutine of a user has ended and none is in flight, and  *)
(* the user was renamed or granted a role but has no committed Member      *)
(* Record with verified = true, a failure report naming the user is in     *)
(* the logs channel.                                                       *)
(***************************************************************************)
C6_HalfVerifiedReported ==
    \A u \in Users :
        (/\ last.flow = "verify" /\ last.user = u
         /\ \A k \in Slots : vflow[<<u, k>>].pc = "idle"
         /\ (granted[u] # {} \/ nick[u] # NoEmail)
         /\ ~IsVerified(db_committed, u))
        => FailureReported(u)

(***************************************************************************)
(* C7: the Invite Snapshot is monotonic per community: invites_cache[g]    *)
(* is only ever replaced by a snapshot of the same or a later observation  *)
(* point.                                                                  *)
(***************************************************************************)
C7_SnapshotMonotonic ==
    [][\A g \in Guilds :
          (g \in DOMAIN invites_cache /\ g \in DOMAIN invites_cache')
          => invites_cache'[g].t >= invites_cache[g].t]_vars

(***************************************************************************)
(* More vocabulary.                                                        *)
(***************************************************************************)
\* a selection menu was sent to the user
MenuSent(u) == \E v \in views : v.user = u

\* the user has picked a community in a selection menu
HasSelected(u) == <<u, "selected">> \in happened

\* the Member Records of the user among the rows
RecordsOf(rows, u) == {r \in rows : r.ID = u}

\* the names of the roles that invites are bound to
RoleNames == {RoleOf[c] : c \in Codes}

\* the address holds the institutional domain, as bot.py:109 and 586 ask
PassedDomainCheck(email) == \E i \in 1..Len(email) : email[i] = "@pitt.edu"

\* the ways on_member_join and verify end on a hard failure (spec 7)
HardFailures == {"nocandidate", "role_missing", "override_no_invite",
                 "override_role_missing", "override_not_bound",
                 "no_role", "commit_failed"}

\* the coroutine has gone through the platform calls of the completion
\* (bot.py:591-639) without a refusal: it is at session.commit(), or a
\* KeyError has ended it
Completed(u, k) ==
    \/ vflow[<<u, k>>].pc = "commit"
    \/ /\ vflow[<<u, k>>].pc = "idle"
       /\ last.flow = "verify" /\ last.user = u
       /\ last.result \in {"KeyError:invite_to_role", "KeyError:user_to_email",
                           "KeyError:user_to_guild"}

(***************************************************************************)
(* C11: when the Differ of on_member_join finds no candidate, the logs     *)
(* channel is told and no session is created: when on_member_join returns *)
(* on this path the member has no entry in user_to_guild, user_to_invite,  *)
(* override_user_to_code or user_to_email.                                 *)
(***************************************************************************)
C11_NoCandidateNoSession ==
    [][\A u \in Users :
          (JoinResolve(u) /\ last' = Ended("join", u, "nocandidate"))
          => /\ Report(jflow[u].guild, "no_invite_join", u) \in logs'
             /\ SessionDeleted(u)']_vars

(***************************************************************************)
(* C12: once a selection menu was sent to a member, no role is granted to  *)
(* the member, the display name is not changed and no Member Record is     *)
(* written for the member before the member has picked a community.        *)
(***************************************************************************)
C12_NothingBeforeSelection ==
    [][\A u \in Users :
          (MenuSent(u) /\ ~HasSelected(u))
          => /\ granted'[u] = granted[u]
             /\ nick'[u] = nick[u]
             /\ RecordsOf(db_users', u) \subseteq RecordsOf(db_users, u)]_vars

(***************************************************************************)
(* C13: a uniquely resolved invite is the entry of the snapshot that was   *)
(* read from invites_cache as the state before the join; at completion     *)
(* the member is granted 'RA' and recorded with is_ra = true if and only   *)
(* if the use count of that entry is 0, 'resident' and is_ra = false       *)
(* otherwise, and in both cases the role bound to the invite is granted    *)
(* as well.                                                                *)
(***************************************************************************)
C13_RAFlag ==
    /\ [][\A u \in Users :
             (/\ jflow[u].pc = "dm" /\ jflow'[u].pc = "idle"
              /\ last' = Ended("join", u, "resolved"))
             => /\ u \in DOMAIN user_to_invite'
                /\ user_to_invite'[u] \in Range(jflow[u].old.inv)]_vars
    /\ [][\A u \in Users, k \in Slots :
             (/\ vflow[<<u, k>>].pc = "fetch"
              /\ vflow'[<<u, k>>].pc = "modal"
              /\ u \notin DOMAIN user_to_invite
              /\ u \notin DOMAIN override_user_to_code)
             => vflow'[<<u, k>>].invite \in Range(invites_cache[vflow[<<u, k>>].guild].inv)]_vars
    /\ [][\A u \in Users, k \in Slots :
             (/\ vflow[<<u, k>>].pc = "edit"
              /\ vflow[<<u, k>>].role # None
              /\ Completed(u, k)')
             => LET f == vflow[<<u, k>>]
                    first == (f.invite.uses = 0)
                    tier == IF first THEN "RA" ELSE "resident"
                    other == IF first THEN "resident" ELSE "RA"
                IN  /\ <<f.guild, tier>> \in granted'[u]
                    /\ <<f.guild, f.role>> \in granted'[u]
                    /\ <<f.guild, other>> \in granted'[u] => <<f.guild, other>> \in granted[u]
                    /\ vflow'[<<u, k>>].pc = "commit"
                          => query_user(db_users', u).is_ra = first]_vars

C13_Witness ==
    \E u, w \in Users :
        /\ u # w
        /\ <<"g1", "RA">> \in granted[u] /\ <<"g1", "resident">> \notin granted[u]
        /\ <<"g1", "resident">> \in granted[w] /\ <<"g1", "RA">> \notin granted[w]
        /\ <<"g1", "roleA">> \in granted[u] /\ <<"g1", "roleA">> \in granted[w]
        /\ query_user(db_committed, u).is_ra
        /\ query_user(db_committed, w) # NoRow /\ ~query_user(db_committed, w).is_ra

(***************************************************************************)
(* C14: at most one verification session is active per user: a user never  *)
(* has more than one open e-mail prompt.                                   *)
(***************************************************************************)
C14_OneSessionPerUser ==
    \A u \in Users : Cardinality({k \in Slots : vflow[<<u, k>>].pc = "modal"}) <= 1

(***************************************************************************)
(* C15: for a user whose verified Member Record is committed, every entry  *)
(* point (the join handler; the Verify button or the /verify command) ends *)
(* at once: no invite fetch is started and neither a community nor a       *)
(* candidate invite is recorded for the user.                              *)
(***************************************************************************)
C15_VerifiedShortCircuit ==
    [][\A u \in Users :
          (/\ IsVerified(db_committed, u)
           /\ \/ JoinStart(u)
              \/ \E k \in Slots, g \in Guilds \cup {None} : VerifyStart(u, k, g))
          => /\ jflow'[u].pc = "fetch" => jflow[u].pc = "fetch"
             /\ \A k \in Slots : vflow'[<<u, k>>].pc = "fetch" => vflow[<<u, k>>].pc = "fetch"
             /\ GuildOf(u)' = GuildOf(u)
             /\ InviteOf(u)' = InviteOf(u)]_vars

(***************************************************************************)
(* C16: a session is a precondition of the completion.  Whenever verify    *)
(* starts the completion side effects for a user, the user has a community *)
(* in user_to_guild and a resolved candidate invite; and a verify          *)
(* invocation that goes on for a user without a session has stored the     *)
(* community in user_to_guild.                                             *)
(***************************************************************************)
C16_SessionPrecondition ==
    [][\A u \in Users, k \in Slots :
          /\ (vflow[<<u, k>>].pc = "edit" /\ vflow'[<<u, k>>].pc # "edit")
             => (u \in DOMAIN user_to_guild /\ vflow[<<u, k>>].invite # NoInvite)
          /\ (vflow[<<u, k>>].pc = "idle" /\ vflow'[<<u, k>>].pc = "fetch")
             => u \in DOMAIN user_to_guild']_vars

(***************************************************************************)
(* C17: every Member Record that verify writes has verified = true, an     *)
(* e-mail address that passed the domain check, the name of the resolved   *)
(* role as community and the RA flag computed from the resolved invite;    *)
(* no record has verified = false, and the verified flag of a record is    *)
(* never reset.                                                            *)
(***************************************************************************)
C17_RecordFields ==
    /\ [](\A r \in db_users \cup db_committed :
             /\ r.verified
             /\ PassedDomainCheck(r.email)
             /\ r.community \in RoleNames)
    /\ [][\A u \in Users, k \in Slots :
             (vflow[<<u, k>>].pc = "edit" /\ vflow'[<<u, k>>].pc # "edit")
             => \A r \in db_users' \ db_users :
                   r = [ID |-> u,
                        email |-> vflow[<<u, k>>].email,
                        verified |-> TRUE,
                        is_ra |-> (vflow[<<u, k>>].invite.uses = 0),
                        community |-> vflow[<<u, k>>].role]]_vars
    /\ [][\A u \in Users :
             (IsVerified(db_users, u) /\ RecordsOf(db_users', u) # {})
             => IsVerified(db_users', u)]_vars

C17_Witness ==
    \E r \in db_committed :
        /\ r.verified /\ ~r.is_ra
        /\ r.community = "roleA"
        /\ r.email = <<"abc", "@pitt.edu">>
        /\ last = Ended("verify", r.ID, "completed")

(***************************************************************************)
(* C18: when the role of the resolved invite is found neither in           *)
(* invite_to_role nor through a DbInvite row, the verification grants no   *)
(* role at all to the member, not 'resident' and not 'RA' either.          *)
(***************************************************************************)
C18_NoGenericRole ==
    [][\A u \in Users, k \in Slots :
          (/\ vflow[<<u, k>>].pc = "edit" /\ vflow'[<<u, k>>].pc # "edit"
           /\ vflow[<<u, k>>].role = None)
          => granted'[u] = granted[u]]_vars

(***************************************************************************)
(* C19: an e-mail address that fails the domain check is a soft failure.   *)
(* The user who submits it is told to retry; the verify that reads it      *)
(* returns without a role grant, a rename or a Member Record write and     *)
(* leaves the community, the candidate invite and the override of the user *)
(* in place; and a later verify of the same user that reads an address     *)
(* with the domain goes on to the completion.                              *)
(***************************************************************************)
C19_SoftFailure ==
    /\ [][\A u \in Users, k \in Slots :
             (/\ vflow[<<u, k>>].pc = "modal" /\ vflow'[<<u, k>>].pc = "woken"
              /\ u \in DOMAIN user_to_email'
              /\ vflow'[<<u, k>>].told # None
              /\ ~PassedDomainCheck(user_to_email'[u]))
             => vflow'[<<u, k>>].told = "retry"]_vars
    /\ [][\A u \in Users, k \in Slots :
             (/\ vflow[<<u, k>>].pc = "woken" /\ vflow'[<<u, k>>].pc # "woken"
              /\ u \in DOMAIN user_to_email
              /\ ~PassedDomainCheck(user_to_email[u]))
             => /\ vflow'[<<u, k>>].pc = "idle"
                /\ last' = Ended("verify", u, "bad_domain")
                /\ granted' = granted /\ nick' = nick
                /\ db_users' = db_users /\ db_committed' = db_committed
                /\ user_to_guild' = user_to_guild
                /\ user_to_invite' = user_to_invite
                /\ override_user_to_code' = override_user_to_code]_vars
    /\ [][\A u \in Users, k \in Slots :
             (/\ vflow[<<u, k>>].pc = "woken" /\ vflow'[<<u, k>>].pc # "woken"
              /\ <<u, "bad_domain">> \in happened
              /\ u \in DOMAIN user_to_email
              /\ PassedDomainCheck(user_to_email[u]))
             => vflow'[<<u, k>>].pc = "edit"]_vars

C19_Witness ==
    \E u \in Users :
        /\ <<u, "bad_domain">> \in happened
        /\ last = Ended("verify", u, "completed")
        /\ IsVerified(db_committed, u)
        /\ granted[u] # {}

(***************************************************************************)
(* C20: every hard failure of on_member_join or verify (no candidate       *)
(* invite, role not found, persistence failure) is reported: when a        *)
(* coroutine has ended on one, a report that names the member is in the    *)
(* logs channel.                                                           *)
(***************************************************************************)
C20_HardFailuresReported ==
    \A u \in Users :
        (last.user = u /\ last.result \in HardFailures) => FailureReported(u)

\* the platform call that ended the user's last verify with discord.Forbidden
RefusedIn(u, call) == last = Ended("verify", u, call)

\* the cache holds this snapshot for the guild, as after the refresh of bot.py:668
Refreshed(cache, g, snap) == g \in DOMAIN cache /\ cache[g] = snap

(***************************************************************************)
(* C21: a refused role grant is not fatal to the completion.  When the     *)
(* platform refuses an add_roles call of a completing verify, the refusal  *)
(* is reported, the roles granted so far are kept, and the coroutine goes  *)
(* on: the Member Record is upserted, the guild's snapshot is refreshed    *)
(* with the one the flow fetched, and the user's session is deleted.       *)
(***************************************************************************)
C21_RefusedGrantNonFatal ==
    [][\A u \in Users, k \in Slots :
          (/\ vflow[<<u, k>>].pc = "edit" /\ vflow'[<<u, k>>].pc # "edit"
           /\ RefusedIn(u, "Forbidden:add_roles")')
          => /\ granted[u] \subseteq granted'[u]
             /\ FailureReported(u)'
             /\ RecordsOf(db_users', u) # {}
             /\ Refreshed(invites_cache', vflow[<<u, k>>].guild, vflow[<<u, k>>].now)
             /\ SessionDeleted(u)']_vars

\* no invocation of verify or on_member_join is under way
NoneRunning ==
    /\ \A u \in Users, k \in Slots : vflow[<<u, k>>].pc = "idle"
    /\ \A u \in Users : jflow[u].pc = "idle"

user_message(result, g, id, code) ==
    CASE result = "already_verified" ->
             <<"You're already verified! Congrats">>
      [] result = "no_guild" ->
             <<"We weren't able to figure out which server you were trying to verify for.">>
      [] result = "not_member" ->
             <<"It doesn't look like we could verify that you are in the server ", g, ".">>
      [] result = "role_missing" ->
             <<"We couldn't find a role to give you, ask your RA for help!">>
      [] result = "ambiguous" ->
             <<"For security, we must verify which community you belong to.">>
      [] result = "nocandidate" ->
             <<"No valid invite link could associate you with a specific community">>
      [] result = "override_no_invite" ->
             <<"We couldn't find a valid invite code associated with the community you selected.">>
      [] result \in {"override_role_missing", "override_not_bound"} ->
             <<"The invite link '", code, "' couldn't associate you with a specific community">>
      [] result = "no_email" ->
             <<"Your user ID ", id, " doesn't show up in our records!">>
      [] result = "no_role" ->
             <<"The invite used couldn't associate you with a specific community">>
      [] OTHER -> << >>

\* the endings of verify that are failures
FailureEndings ==
    {"no_guild", "not_member", "role_missing", "nocandidate", "override_no_invite",
     "override_role_missing", "override_not_bound", "no_email", "no_role"}

(***************************************************************************)
(* C23: no failure message to the user carries an internal identifier.     *)
(* Whenever verify has ended in a failure, the text it sent to the user is *)
(* the same whatever the user's id and the invite's code are, and no piece *)
(* of it is a user id or an invite code.                                   *)
(***************************************************************************)
C23_NoIdentifierInMessage ==
    (last.flow = "verify" /\ last.result \in FailureEndings) =>
        \A g \in Guilds :
            /\ \A id1, id2 \in Users, code1, code2 \in Codes :
                  user_message(last.result, g, id1, code1)
                      = user_message(last.result, g, id2, code2)
            /\ \A id \in Users, code \in Codes :
                  Range(user_message(last.result, g, id, code)) \cap (Users \cup Codes) = {}

\* the endings of verify on an abort path: the prompt timed out, the bound
\* role is missing, the platform denied a permission
AbortEndings ==
    {"no_email", "role_missing", "no_role",
     "Forbidden:edit", "Forbidden:add_roles", "Forbidden:set_permissions"}

(***************************************************************************)
(* C24: every abort path of verify deletes the session and writes no       *)
(* Member Record.  When a verify coroutine ends because the e-mail prompt  *)
(* timed out, because the bound role is missing or because the platform    *)
(* denied a permission, the user has no entry in user_to_guild,            *)
(* user_to_invite, override_user_to_code or user_to_email afterwards, and  *)
(* the rows of the store are what they were.                               *)
(***************************************************************************)
C24_AbortDeletesSession ==
    [][\A u \in Users, k \in Slots :
          (/\ vflow[<<u, k>>].pc # "idle" /\ vflow'[<<u, k>>].pc = "idle"
           /\ last'.user = u /\ last'.result \in AbortEndings)
          => /\ SessionDeleted(u)'
             /\ db_users' = db_users
             /\ db_committed' = db_committed]_vars

(***************************************************************************)
(* C25: a prompt that times out with nothing submitted in that attempt     *)
(* abandons the attempt, and says so.  When a verify coroutine wakes from  *)
(* a prompt to which nothing was submitted, it ends, no Member Record is   *)
(* written or changed, and the logs channel holds the report that names    *)
(* the user, whatever an earlier attempt of the same user has left behind. *)
(***************************************************************************)
C25_TimeoutReported ==
    [][\A u \in Users, k \in Slots :
          (/\ vflow[<<u, k>>].pc = "woken" /\ vflow'[<<u, k>>].pc # "woken"
           /\ vflow[<<u, k>>].told = None)
          => /\ vflow'[<<u, k>>].pc = "idle"
             /\ db_users' = db_users
             /\ Report(vflow[<<u, k>>].guild, "no_records", u) \in logs']_vars

\* the places of verify at which the coroutine holds the snapshot it fetched
AfterFetch == {"modal", "woken", "edit", "commit"}

(***************************************************************************)
(* C26: the Snapshot Store is written through at the end of every flow.    *)
(* When a verify coroutine that has fetched the invites of its guild ends, *)
(* by completion or by any abort, and when on_member_join ends without     *)
(* sending a selection menu, invites_cache of the guild is the snapshot    *)
(* that the coroutine fetched.                                             *)
(***************************************************************************)
C26_WriteThrough ==
    /\ [][\A u \in Users, k \in Slots :
             (/\ vflow[<<u, k>>].pc \in AfterFetch
              /\ vflow'[<<u, k>>].pc = "idle")
             => Refreshed(invites_cache', vflow[<<u, k>>].guild, vflow[<<u, k>>].now)]_vars
    /\ [][\A u \in Users, k \in Slots :
             (/\ vflow[<<u, k>>].pc = "fetch"
              /\ vflow'[<<u, k>>].pc = "idle"
              /\ last' \in {Ended("verify", u, "nocandidate"),
                            Ended("verify", u, "role_missing")})
             => Refreshed(invites_cache', vflow[<<u, k>>].guild, FetchInvites(vflow[<<u, k>>].guild))]_vars
    /\ [][\A u \in Users :
             (/\ jflow[u].pc = "dm"
              /\ jflow'[u].pc = "idle"
              /\ last' # Ended("join", u, "ambiguous"))
             => Refreshed(invites_cache', jflow[u].guild, jflow[u].now)]_vars

\* no snapshot is stored for the guild
NoSnapshot(g) == g \notin DOMAIN invites_cache

(***************************************************************************)
(* C27: an absent snapshot is an empty one.  When on_member_join or verify *)
(* reads the old snapshot of a guild for which none is stored, it goes on  *)
(* with the empty list: on_member_join diffs against no invite, verify of  *)
(* a member of the guild with no invite on record ends on the no-candidate *)
(* path, and neither ends by an exception.                                 *)
(***************************************************************************)
C27_AbsentSnapshotIsEmpty ==
    /\ [][\A u \in Users :
             (/\ jflow[u].pc = "fetch" /\ jflow'[u].pc # "fetch"
              /\ NoSnapshot(jflow[u].guild))
             => /\ jflow'[u].pc = "dm"
                /\ jflow'[u].old.inv = << >>]_vars
    /\ [][\A u \in Users, k \in Slots :
             (/\ vflow[<<u, k>>].pc = "fetch" /\ vflow'[<<u, k>>].pc # "fetch"
              /\ NoSnapshot(vflow[<<u, k>>].guild)
              /\ u \in members[vflow[<<u, k>>].guild]
              /\ u \notin DOMAIN user_to_invite
              /\ u \notin DOMAIN override_user_to_code)
             => /\ vflow'[<<u, k>>].pc = "idle"
                /\ last' = Ended("verify", u, "nocandidate")]_vars

(***************************************************************************)
(* C28: the order of the role lookup and the population of the cache.      *)
(* When verify resolves the role of an invite, a code that is in           *)
(* invite_to_role gets the cached role; otherwise a code with a persisted  *)
(* Invite Record gets the role of the record, and the code is in           *)
(* invite_to_role afterwards; a code that is in neither gets no role.      *)
(***************************************************************************)
C28_LookupPopulatesCache ==
    [][\A u \in Users, k \in Slots :
          (vflow[<<u, k>>].pc = "fetch" /\ vflow'[<<u, k>>].pc = "modal")
          => LET code == vflow'[<<u, k>>].invite.code
                 role == vflow'[<<u, k>>].role
             IN  /\ code \in DOMAIN invite_to_role => role = invite_to_role[code]
                 /\ (code \notin DOMAIN invite_to_role /\ code \in DOMAIN db_invites)
                       => role = db_invites[code]
                 /\ (code \notin DOMAIN invite_to_role /\ code \notin DOMAIN db_invites)
                       => role = None
                 /\ role # None => code \in DOMAIN invite_to_role']_vars

\* the role of the invite resolves for the guild: through the cache, or
\* through a DbInvite row whose role the guild still has
Resolves(g, code) ==
    \/ code \in DOMAIN invite_to_role
    \/ code \in DOMAIN db_invites /\ db_invites[code] \in guild_roles[g]

\* the verify coroutine was started by CommunitySelectDropdown.callback and
\* is waiting for the invites of its guild
FromSelection(u, k) == vflow[<<u, k>>].pc = "fetch" /\ vflow[<<u, k>>].via = "select"

(***************************************************************************)
(* C29: a selection is recorded as the override and the flow re-enters at  *)
(* the e-mail prompt.  The callback stores the picked invite as the user's *)
(* override; the verify it starts finds the selection on record when the   *)
(* invites arrive, takes the invite on record without diffing again, and,  *)
(* when the role of that invite resolves, opens the e-mail prompt for the  *)
(* guild stored in the session (when one is stored).                       *)
(***************************************************************************)
C29_SelectionReenters ==
    /\ [][\A u \in Users, k \in Slots :
             (vflow[<<u, k>>].pc = "idle" /\ FromSelection(u, k)')
             => /\ u \in DOMAIN override_user_to_code'
                /\ u \in DOMAIN user_to_invite'
                /\ user_to_invite'[u] = override_user_to_code'[u]
                /\ \E v \in views : \E label \in DOMAIN v.options_to_inv :
                      v.user = u /\ v.options_to_inv[label] = override_user_to_code'[u]]_vars
    /\ [][\A u \in Users, k \in Slots :
             (/\ FromSelection(u, k) /\ vflow'[<<u, k>>].pc # "fetch"
              /\ u \in members[vflow[<<u, k>>].guild])
             => /\ u \in DOMAIN override_user_to_code
                /\ u \in DOMAIN user_to_invite
                /\ Resolves(vflow[<<u, k>>].guild, override_user_to_code[u].code)
                      => /\ vflow'[<<u, k>>].pc = "modal"
                         /\ u \in DOMAIN user_to_guild
                               => vflow'[<<u, k>>].guild = user_to_guild[u]]_vars

\* the name of the role that the invite's code resolves to
RoleNameOf(code) ==
    IF code \in DOMAIN invite_to_role THEN invite_to_role[code] ELSE db_invites[code]

\* the selection menu `view` is the Ambiguity Escalation of the candidate
\* list for guild g: its choices are the candidates whose role resolves,
\* in the order of the list, each role name mapped to its own invite
ChoiceSetOf(view, g, candidates) ==
    LET kept == {i \in 1..Len(candidates) : Resolves(g, candidates[i].code)}
        names == {RoleNameOf(candidates[i].code) : i \in kept}
    IN  /\ DOMAIN view.options_to_inv = names
        /\ \A i \in kept :
              view.options_to_inv[RoleNameOf(candidates[i].code)] = candidates[i]
        /\ Range(view.options) = names
        /\ Len(view.options) = Cardinality(kept)
        /\ \A i, j \in 1..Len(view.options) :
              i < j => PositionIn(candidates, view.options_to_inv[view.options[i]])
                          < PositionIn(candidates, view.options_to_inv[view.options[j]])

\* every candidate of the list whose role does not resolve has its report
\* in the logs channel of the guild
DiscardsReported(reports, g, candidates) ==
    \A i \in 1..Len(candidates) :
        ~Resolves(g, candidates[i].code)
        => \E r \in reports :
              /\ r.guild = g
              /\ r.kind = IF candidates[i].code \in DOMAIN db_invites
                          THEN "role_missing" ELSE "not_bound"

SameEntry(before, after, key) ==
    /\ key \in DOMAIN before <=> key \in DOMAIN after
    /\ key \in DOMAIN before => after[key] = before[key]

(***************************************************************************)
(* C31: a successful completion deletes the session of its user and of     *)
(* nobody else.  The step that carries out the cleanup of bot.py:671-676   *)
(* leaves the user without an entry in user_to_email, user_to_guild,       *)
(* override_user_to_code and user_to_invite and leaves the entries of      *)
(* every other user as they were; the commit that follows changes none of  *)
(* the four dicts, so the user has no entry when verify has completed.     *)
(***************************************************************************)
C31_CompletionDeletesOwnSession ==
    /\ [][\A u \in Users, k \in Slots :
             (vflow[<<u, k>>].pc = "edit" /\ vflow'[<<u, k>>].pc = "commit")
             => /\ SessionDeleted(u)'
                /\ \A w \in Users \ {u} :
                      /\ SameEntry(user_to_email, user_to_email', w)
                      /\ SameEntry(user_to_guild, user_to_guild', w)
                      /\ SameEntry(override_user_to_code, override_user_to_code', w)
                      /\ SameEntry(user_to_invite, user_to_invite', w)]_vars
    /\ [][\A u \in Users, k \in Slots :
             (/\ vflow[<<u, k>>].pc = "commit" /\ vflow'[<<u, k>>].pc = "idle"
              /\ last' = Ended("verify", u, "completed"))
             => /\ SessionDeleted(u)'
                /\ UNCHANGED <<user_to_email, user_to_guild, override_user_to_code,
                               user_to_invite>>]_vars

C31_Witness ==
    \E u \in Users, w \in Users :
        /\ u # w
        /\ last = Ended("verify", u, "completed")
        /\ IsVerified(db_committed, u)
        /\ SessionDeleted(u)
        /\ w \in DOMAIN user_to_guild /\ w \in DOMAIN user_to_invite

\* the string is an address of the institutional domain: a local part
\* followed by "@pitt.edu" and nothing else
IsInstitutional(email) ==
    /\ Len(email) = 2
    /\ email[1] = "abc"
    /\ email[2] = "@pitt.edu"

(***************************************************************************)
(* C32: completion proceeds only for an address of the institutional       *)
(* domain.  A verify coroutine goes on from the prompt to the rename, the  *)
(* role grants and the Member Record only when the submitted string is     *)
(* local-part@pitt.edu; a string that merely holds the text "@pitt.edu"    *)
(* is rejected, and no Member Record ever carries such a string.           *)
(***************************************************************************)
C32_InstitutionalOnly ==
    /\ [][\A u \in Users, k \in Slots :
             (vflow[<<u, k>>].pc = "woken" /\ vflow'[<<u, k>>].pc = "edit")
             => IsInstitutional(user_to_email[u])]_vars
    /\ [](\A r \in db_users : IsInstitutional(r.email))

(***************************************************************************)
(* C33: the bound role of an invite never changes implicitly.  No step of  *)
(* on_member_join, of verify or of the selection callback changes the      *)
(* invite_to_role cache or the persisted Invite Records: the bindings are  *)
(* those that make_categories wrote and on_ready loaded.                   *)
(***************************************************************************)
C33_BindingsUnchanged ==
    [][invite_to_role' = invite_to_role /\ db_invites' = db_invites]_vars

C33_Witness ==
    \E u \in Users, k \in Slots :
        /\ vflow[<<u, k>>].pc = "commit"
        /\ <<u, "selected">> \in happened
        /\ \E w \in Users \ {u}, j \in Slots :
              /\ vflow[<<w, j>>].pc = "modal"
              /\ vflow[<<w, j>>].invite.code = "B"
              /\ vflow[<<w, j>>].role = "roleB"
        /\ "B" \notin DOMAIN invite_to_role
        /\ "B" \in DOMAIN db_invites

\* The invite a member came through: the model remembers the code of every
\* join, and a code belongs to one community.
JoinedWith(u, code) == <<u, code>> \in happened

\* C34: with a fixed set of invites and atomic use counters, under any
\* interleaving of join handlers and verify flows, whenever on_member_join
\* or verify's fallback Differ resolves a unique candidate for a member, that
\* candidate is the invite the member joined with.
C34_UniqueIsJoinedInvite ==
    /\ [][\A u \in Users :
             (jflow[u].pc = "dm" /\ jflow'[u].pc = "idle"
              /\ last' = Ended("join", u, "resolved"))
             => JoinedWith(u, user_to_invite'[u].code)]_vars
    /\ [][\A u \in Users, k \in Slots :
             (vflow[<<u, k>>].pc = "fetch" /\ vflow'[<<u, k>>].pc = "modal"
              /\ u \notin DOMAIN user_to_invite
              /\ u \notin DOMAIN override_user_to_code)
             => JoinedWith(u, vflow'[<<u, k>>].invite.code)]_vars

\* Member u is flagged RA as the first user of invite `code`: u holds the "RA"
\* role of the invite's community and u's Member Record has is_ra set for
\* the community role the invite is bound to (bot.py:600-608, 642-659).
FlaggedRA(u, code) ==
    /\ <<CodeGuild(code), "RA">> \in granted[u]
    /\ \E r \in db_users : r.ID = u /\ r.is_ra /\ r.community = RoleOf[code]

\* C35: for each invite, at most one member is ever flagged RA (is_ra = true
\* and granted the "RA" role) on the grounds of being that invite's first
\* user, in every sequence and interleaving of joins, community selections
\* and verifications.
C35_OneRAPerInvite ==
    \A code \in Codes : Cardinality({u \in Users : FlaggedRA(u, code)}) <= 1

\* C36: in every reachable state, a user who has both a community in
\* user_to_guild and a candidate invite in user_to_invite has a candidate
\* that belongs to that community, also when the user joins a second
\* community before finishing verification in the first; hence a verify
\* flow never carries an invite of another community than the one it runs
\* in.  The states in which a join handler of the user is still running are
\* left out: the property is asked only of the states between handlers.
C36_CandidateOfStoredCommunity ==
    /\ \A u \in Users :
           (u \in DOMAIN user_to_guild /\ u \in DOMAIN user_to_invite
            /\ jflow[u].pc = "idle")
           => CodeGuild(user_to_invite[u].code) = user_to_guild[u]
    /\ \A u \in Users, k \in Slots :
           (vflow[<<u, k>>].pc \in {"modal", "woken", "edit"}
            /\ vflow[<<u, k>>].invite.code # None)
           => CodeGuild(vflow[<<u, k>>].invite.code) = vflow[<<u, k>>].guild

\* C37: every verify flow that reaches the Member Record upsert
\* (session.merge) goes on to commit it: the cache cleanup between merge and
\* commit never fails on a missing user_to_email or user_to_guild entry,
\* including for a manual verify in a community with no preceding join event
\* and for two overlapping verify flows of the same user.
C37_MergeReachesCommit ==
    [][\A u \in Users, k \in Slots :
          (vflow[<<u, k>>].pc = "edit" /\ vflow'[<<u, k>>].pc # "edit"
           /\ db_users' # db_users)
          => vflow'[<<u, k>>].pc = "commit"]_vars

\* C38: when the member's role was resolved from the persisted Invite Record
\* because the invite code is absent from the invite_to_role cache,
\* completion still carries out every remaining step: it revokes
\* landing-channel access for the resolved role, upserts and commits the
\* Member Record and deletes the session.
C38_PersistedRoleCompletes ==
    [][\A u \in Users, k \in Slots :
          (vflow[<<u, k>>].pc = "edit" /\ vflow'[<<u, k>>].pc # "edit"
           /\ vflow[<<u, k>>].role # None
           /\ vflow[<<u, k>>].invite.code \notin DOMAIN invite_to_role
           /\ <<vflow[<<u, k>>].guild, vflow[<<u, k>>].role>> \in granted'[u])
          => /\ vflow'[<<u, k>>].pc = "commit"
             /\ <<vflow[<<u, k>>].guild, vflow[<<u, k>>].role>> \in landing_revoked'
             /\ IsVerified(db_users', u)
             /\ SessionDeleted(u)']_vars

\* C39: completion only ever uses an email submitted in the prompt of the
\* current verify attempt: a flow that is carrying out completion (it has
\* passed the domain check and holds an address) was answered by its own
\* prompt, so an address left in user_to_email by an earlier attempt of the
\* same user is never picked up by an attempt whose prompt timed out.
C39_OwnSubmissionOnly ==
    \A u \in Users, k \in Slots :
        vflow[<<u, k>>].pc \in {"edit", "commit"}
        => /\ vflow[<<u, k>>].told = "welcome"
           /\ vflow[<<u, k>>].email # NoEmail

\* what only the "member has been overridden" branch of verify leaves behind
\* (bot.py:489-555): its reports in the logs channel and its endings
OverrideReports == {"override_no_invite", "override_role_missing", "used_cached",
                    "used_databased"}
OverrideEndings == {"override_no_invite", "override_role_missing", "override_not_bound"}

\* C40: in every reachable state, every user with an entry in
\* override_user_to_code also has an entry in user_to_invite (both are set
\* together by the selection callback and removed together at completion);
\* consequently the "member has been overridden" branch of verify is never
\* executed: none of its reports is ever sent and no verify ends in it.
C40_OverrideImpliesCandidate ==
    /\ DOMAIN override_user_to_code \subseteq DOMAIN user_to_invite
    /\ \A r \in logs : r.kind \notin OverrideReports
    /\ last.result \notin OverrideEndings

\* a user who picked a community holds an override entry, and the verify the
\* selection started has resolved the invite and opened its prompt
C40_Witness ==
    \E u \in Users, k \in Slots :
        /\ u \in DOMAIN override_user_to_code
        /\ <<u, "selected">> \in happened
        /\ vflow[<<u, k>>].pc = "modal"
        /\ vflow[<<u, k>>].invite = override_user_to_code[u]

====
